---- MODULE Spec2Model ----
(***************************************************************************)
(* MazeGenerator (src/app.py): randomized depth-first carving of a maze    *)
(* on a (2H+1) x (2W+1) grid, selection of boundary exits, and one A*      *)
(* search per exit from the fixed start (1,0).                             *)
(*                                                                         *)
(* Conventions of the source kept here:                                    *)
(*   - maze cells hold 1 (Wall, np.ones) or 0 (Open);                      *)
(*   - maze[row, col] of the source is At(maze, <<row, col>>); rows and    *)
(*     columns count from 0 as in the source, the tuples of TLA+ from 1;    *)
(*   - _dfs and the visited set use (x, y) = (col, row) tuples;            *)
(*   - exits, the start and path coordinates are (row, col) tuples.        *)
(***************************************************************************)
EXTENDS Integers, Sequences, FiniteSets, TLC

VARIABLES
    width,      \* self.width
    height,     \* self.height
    num_exits,  \* self.num_exits
    maze,       \* self.maze : its rows, top first, each a tuple of 0s and 1s
    visited,    \* self.visited : set of <<x, y>>
    exits,      \* self.exits : sequence of <<row, col>>
    paths,      \* self.paths : sequence of paths
    stack,      \* the active _dfs calls, outermost first, each <<x, y>>
    pc,         \* where the caller of the session stands
    raised,     \* the exception the last call propagated to the caller
    genCalls,   \* generate_maze calls made on this session
    genLimit,   \* generate_maze calls the caller makes on this session
    findCalls,  \* find_all_paths calls since the grid last changed
    dfsCalls,   \* _dfs calls made by the current generate_maze
    exitsEver   \* every coordinate some generate_maze call put in self.exits

vars == <<width, height, num_exits, maze, visited, exits, paths, stack, pc,
          raised, genCalls, genLimit, findCalls, dfsCalls, exitsEver>>

----------------------------------------------------------------------------
(* Bounds of the model. *)

\* widths of the sessions of Spec
MaxW == 2
\* heights of the sessions of Spec
MaxH == 2
\* requested exits of the sessions of Spec
MaxExits == 1
\* requested exits of the 1 x 1 sessions (its pool holds 4 candidates)
OverExits == 5
\* rooms (W * H) of the sessions of SpecRegen
RegenRooms == 2
\* requested exits of the sessions of SpecRegen
RegenExits == 1
\* generate_maze calls on one session of SpecRegen
MaxGenCalls == 2
\* height of the single-column maze of SpecDeep
DeepH == 1000

----------------------------------------------------------------------------
(* The interpreter's call-depth limit, which the recursion of _dfs meets. *)

\* sys.getrecursionlimit() of CPython, never changed by the source
RecursionLimit == 1000
\* frames that are not _dfs frames when random.shuffle runs inside _dfs:
\* the calling script and generate_maze below, random.shuffle and its
\* helpers above
FrameOverhead == 5

----------------------------------------------------------------------------
(* Grid *)

Rows == 2 * height + 1
Cols == 2 * width + 1
Cells == (0 .. Rows - 1) \X (0 .. Cols - 1)

Wall == 1
Open == 0

\* self.start
Start == <<1, 0>>

None == << >>

\* m[c] for a cell c = <<row, col>> that is an index of the array
At(m, c) == m[c[1] + 1][c[2] + 1]

\* m with m[c] = v done
Set(m, c, v) == [m EXCEPT ![c[1] + 1][c[2] + 1] = v]

\* numpy accepts index i on an axis of length n iff -n <= i < n
IndexOK(r, c) == /\ -Rows <= r /\ r < Rows
                 /\ -Cols <= c /\ c < Cols

\* a negative index counts from the end of the axis
Norm(r, c) == << IF r < 0 THEN r + Rows ELSE r, IF c < 0 THEN c + Cols ELSE c >>

Abs(n) == IF n < 0 THEN -n ELSE n
Min(a, b) == IF a < b THEN a ELSE b
Range(s) == { s[i] : i \in DOMAIN s }

RECURSIVE Reverse(_)
Reverse(s) == IF s = << >> THEN << >> ELSE Append(Reverse(Tail(s)), Head(s))

----------------------------------------------------------------------------
(* Carver: _dfs *)

\* directions = [(0, 2), (2, 0), (0, -2), (-2, 0)], as (dx, dy); the list is
\* shuffled before it is walked, so the model keeps it as a set
Directions == { <<0, 2>>, <<2, 0>>, <<0, -2>>, <<-2, 0>> }

\* the guard of the for loop of _dfs on the candidate room (new_x, new_y)
CanEnter(new_x, new_y) ==
    /\ 0 < new_x /\ new_x < Cols - 1
    /\ 0 < new_y /\ new_y < Rows - 1
    /\ <<new_x, new_y>> \notin visited

\* PassageCell with the whole offset added: the cell of the candidate room
PassageCellWholeOffset(x, y, dx, dy) == << y + dy, x + dx >>

\* the cell opened between room (x, y) and the room at offset (dx, dy),
\* as the maze index (row, col); // floors, as \div does
PassageCell(x, y, dx, dy) == << y + (dy \div 2), x + (dx \div 2) >>

\* the call _dfs at recursion depth `depth` cannot run random.shuffle
RecursionExceeded(depth) == depth + FrameOverhead > RecursionLimit

\* The call _dfs(x, y) made with `callers` active _dfs frames below it, on
\* grid m, up to the shuffle: the room joins visited, its cell is opened
\* (IndexError when (y, x) is no index of the array), and random.shuffle is
\* called (RecursionError when the interpreter's call depth is used up).  An
\* exception unwinds every _dfs frame and generate_maze re-raises it.
Enter(x, y, m, callers) ==
    /\ visited' = visited \cup { <<x, y>> }
    /\ IF ~IndexOK(y, x)
       THEN /\ maze' = m
            /\ stack' = << >>
            /\ pc' = "raised"
            /\ raised' = "IndexError"
       ELSE /\ maze' = Set(m, Norm(y, x), Open)
            /\ IF RecursionExceeded(Len(callers) + 1)
               THEN /\ stack' = << >>
                    /\ pc' = "raised"
                    /\ raised' = "RecursionError"
               ELSE /\ stack' = Append(callers, <<x, y>>)
                    /\ pc' = "dfs"
                    /\ raised' = "none"

\* the caller may call a method of the session
Callable == pc \in { "new", "generated", "raised" }

\* generate_maze up to the shuffle of its first call _dfs(1, 1)
GenerateBegin ==
    /\ Callable
    /\ genCalls < genLimit
    /\ genCalls' = genCalls + 1
    /\ findCalls' = "none"
    /\ dfsCalls' = 1
    /\ Enter(1, 1, maze, << >>)
    /\ UNCHANGED <<width, height, num_exits, exits, paths, genLimit, exitsEver>>

\* One pass of the for loop of the innermost _dfs call that ends in a
\* recursive call.  random.shuffle may put the directions in any order, and a
\* direction that fails the guard once fails it ever after (out of bounds, or
\* visited, and visited only grows); so the next direction recursed into is
\* any direction that passes the guard now.
DfsStep ==
    /\ pc = "dfs"
    /\ LET x == stack[Len(stack)][1]
           y == stack[Len(stack)][2]
       IN \E d \in Directions :
            /\ CanEnter(x + d[1], y + d[2])
            /\ Enter(x + d[1], y + d[2],
                     Set(maze, PassageCell(x, y, d[1], d[2]), Open),
                     stack)
    /\ dfsCalls' = dfsCalls + 1
    /\ UNCHANGED <<width, height, num_exits, exits, paths, genCalls, genLimit,
                   findCalls, exitsEver>>

\* The for loop of the innermost _dfs call ends: no direction passes the
\* guard.  The call returns; when it was _dfs(1, 1), generate_maze goes on.
DfsReturn ==
    /\ pc = "dfs"
    /\ LET x == stack[Len(stack)][1]
           y == stack[Len(stack)][2]
       IN \A d \in Directions : ~CanEnter(x + d[1], y + d[2])
    /\ stack' = SubSeq(stack, 1, Len(stack) - 1)
    /\ pc' = IF Len(stack) = 1 THEN "exits" ELSE "dfs"
    /\ UNCHANGED <<width, height, num_exits, maze, visited, exits, paths,
                   raised, genCalls, genLimit, findCalls, dfsCalls, exitsEver>>

----------------------------------------------------------------------------
(* Exit Selector: _generate_exits *)

\* ScanRange without the step of 2: range(1, n - 1)
ScanEvery(n) == [ i \in 1 .. (n - 2) |-> i ]

\* range(1, n - 1, 2) as a sequence
ScanRange(n) == [ i \in 1 .. ((n - 1) \div 2) |-> 2 * i - 1 ]

\* possible_exits, in the order the two loops append to it: each scanned row
\* offers its right then its left boundary cell, each scanned column its
\* bottom then its top one, and a cell is kept when the cell tested for it
\* (maze[y, -2], maze[y, 1], maze[-2, x], maze[1, x]) is Open
PossibleExits(m) ==
    LET ys == ScanRange(Rows)
        xs == ScanRange(Cols)
        rowTests == [ i \in 1 .. 2 * Len(ys) |->
                        LET y == ys[(i + 1) \div 2]
                        IN IF i % 2 = 1
                           THEN [ cell |-> <<y, Cols - 1>>, tested |-> Norm(y, -2) ]
                           ELSE [ cell |-> <<y, 0>>, tested |-> Norm(y, 1) ] ]
        colTests == [ i \in 1 .. 2 * Len(xs) |->
                        LET x == xs[(i + 1) \div 2]
                        IN IF i % 2 = 1
                           THEN [ cell |-> <<Rows - 1, x>>, tested |-> Norm(-2, x) ]
                           ELSE [ cell |-> <<0, x>>, tested |-> Norm(1, x) ] ]
        IsOpen(t) == At(m, t.tested) = Open
        kept == SelectSeq(rowTests \o colTests, IsOpen)
    IN [ i \in DOMAIN kept |-> kept[i].cell ]

\* Sample with replacement, as random.choices draws
SampleWithRepeats(population, k) ==
    { [ i \in 1 .. k |-> population[f[i]] ] : f \in [1 .. k -> DOMAIN population] }

\* the lists random.sample(population, k) can return: k entries at pairwise
\* different positions of the population, in any order
Sample(population, k) ==
    { [ i \in 1 .. k |-> population[f[i]] ] :
        f \in { g \in [1 .. k -> DOMAIN population] :
                  \A i, j \in 1 .. k : i # j => g[i] # g[j] } }

\* min(self.num_exits, len(possible_exits))
SampleSize(requested, available) == Min(requested, available)

\* the loop that carves the chosen exits
CarveExits(m, chosen) ==
    [ r \in DOMAIN m |->
        [ c \in DOMAIN m[r] |->
            IF <<r - 1, c - 1>> \in Range(chosen) THEN Open ELSE m[r][c] ] ]

\* generate_maze after _dfs(1, 1) returned: the entrance, then _generate_exits
GenerateFinish ==
    /\ pc = "exits"
    /\ LET m1 == Set(maze, Start, Open)
           pool == PossibleExits(m1)
       IN \E chosen \in Sample(pool, SampleSize(num_exits, Len(pool))) :
            /\ exits' = chosen
            /\ maze' = CarveExits(m1, chosen)
            /\ exitsEver' = exitsEver \cup Range(chosen)
    /\ pc' = "generated"
    /\ raised' = "none"
    /\ UNCHANGED <<width, height, num_exits, visited, paths, stack, genCalls,
                   genLimit, findCalls, dfsCalls>>

----------------------------------------------------------------------------
(* Pathfinder: _heuristic, _get_neighbors, _astar, find_all_paths *)

\* _heuristic: Manhattan distance
Heuristic(a, b) == Abs(a[1] - b[1]) + Abs(a[2] - b[2])

\* NeighborDirs without the last direction, up
NeighborDirsNoUp == << <<0, 1>>, <<1, 0>>, <<0, -1>> >>

\* directions = [(0, 1), (1, 0), (0, -1), (-1, 0)], as (dy, dx), in list order
NeighborDirs == << <<0, 1>>, <<1, 0>>, <<0, -1>>, <<-1, 0>> >>

\* _get_neighbors: the Open cells of the array next to pos, in list order
GetNeighbors(m, pos) ==
    LET cand == [ i \in DOMAIN NeighborDirs |->
                    << pos[1] + NeighborDirs[i][1], pos[2] + NeighborDirs[i][2] >> ]
        Valid(c) == /\ 0 <= c[1] /\ c[1] < Rows
                    /\ 0 <= c[2] /\ c[2] < Cols
                    /\ At(m, c) = Open
    IN SelectSeq(cand, Valid)

\* dict[k] = v
Put(f, k, v) == [ q \in (DOMAIN f) \cup {k} |-> IF q = k THEN v ELSE f[q] ]

\* Python's < on the heap entries (priority, (row, col))
EntryLess(a, b) ==
    \/ a[1] < b[1]
    \/ /\ a[1] = b[1]
       /\ \/ a[2][1] < b[2][1]
          \/ a[2][1] = b[2][1] /\ a[2][2] < b[2][2]

\* heappop: the least entry.  No entry is pushed twice (a cell is pushed again
\* only at a strictly lower cost, hence priority), so the heap is a set.
HeapPop(frontier) ==
    CHOOSE e \in frontier : \A f \in frontier : f = e \/ EntryLess(e, f)

\* the for loop of _astar over the neighbours of current
RECURSIVE Relax(_, _, _, _)
Relax(nbrs, current, goal, st) ==
    IF nbrs = << >> THEN st
    ELSE LET next_pos == Head(nbrs)
             new_cost == st.cost_so_far[current] + 1
         IN IF \/ next_pos \notin DOMAIN st.cost_so_far
               \/ new_cost < st.cost_so_far[next_pos]
            THEN Relax(Tail(nbrs), current, goal,
                       [ frontier |-> st.frontier \cup
                             { << new_cost + Heuristic(goal, next_pos), next_pos >> },
                         came_from |-> Put(st.came_from, next_pos, current),
                         cost_so_far |-> Put(st.cost_so_far, next_pos, new_cost) ])
            ELSE Relax(Tail(nbrs), current, goal, st)

\* the while loop of _astar; its value is came_from when the loop ends
RECURSIVE AStarLoop(_, _, _)
AStarLoop(m, goal, st) ==
    IF st.frontier = {} THEN st.came_from
    ELSE LET e == HeapPop(st.frontier)
             current == e[2]
             popped == [st EXCEPT !.frontier = @ \ {e}]
         IN IF current = goal THEN st.came_from
            ELSE AStarLoop(m, goal,
                           Relax(GetNeighbors(m, current), current, goal, popped))

\* the walk from the goal along came_from, in the order it appends
RECURSIVE WalkBack(_, _)
WalkBack(came_from, current) ==
    IF current = None THEN << >>
    ELSE << current >> \o WalkBack(came_from, came_from[current])

\* ReconstructPath without path.reverse()
ReconstructPathUnreversed(came_from, goal) == WalkBack(came_from, goal)

\* the path list of _astar: the walk, reversed
ReconstructPath(came_from, goal) == Reverse(WalkBack(came_from, goal))

\* _astar(start, goal) on grid m: a path, or None
AStar(m, start, goal) ==
    LET came_from == AStarLoop(m, goal,
                               [ frontier |-> { <<0, start>> },
                                 came_from |-> [ q \in {start} |-> None ],
                                 cost_so_far |-> [ q \in {start} |-> 0 ] ])
    IN IF goal \notin DOMAIN came_from THEN None
       ELSE ReconstructPath(came_from, goal)

\* ResetPaths without the reset: the list of the earlier call is kept
KeepPaths(old) == old

\* self.paths = [] at the start of find_all_paths
ResetPaths(old) == << >>

\* the loop of find_all_paths: a path is appended if it is truthy (neither
\* None nor an empty list), otherwise only a warning is logged
RECURSIVE CollectPaths(_, _, _)
CollectPaths(m, es, acc) ==
    IF es = << >> THEN acc
    ELSE LET path == AStar(m, Start, Head(es))
         IN CollectPaths(m, Tail(es),
                         IF path # None THEN Append(acc, path) ELSE acc)

\* find_all_paths
FindAllPaths ==
    /\ Callable
    /\ paths' = CollectPaths(maze, exits, ResetPaths(paths))
    /\ findCalls' = IF findCalls = "none" THEN "once" ELSE "repeated"
    /\ UNCHANGED <<width, height, num_exits, maze, visited, exits, stack, pc,
                   raised, genCalls, genLimit, dfsCalls, exitsEver>>

----------------------------------------------------------------------------
(* Sessions *)

\* MazeGenerator(width, height, num_exits), by a caller that will call
\* generate_maze `limit` times: np.ones raises ValueError on a negative
\* dimension, and then there is no session
NewSession(w, h, n, limit) ==
    /\ width = w
    /\ height = h
    /\ num_exits = n
    /\ visited = {}
    /\ exits = << >>
    /\ paths = << >>
    /\ stack = << >>
    /\ genCalls = 0
    /\ genLimit = limit
    /\ findCalls = "none"
    /\ dfsCalls = 0
    /\ exitsEver = {}
    /\ IF 2 * h + 1 < 0 \/ 2 * w + 1 < 0
       THEN /\ maze = << >>
            /\ pc = "unconstructed"
            /\ raised = "ValueError"
       ELSE /\ maze = [ r \in 1 .. 2 * h + 1 |-> [ c \in 1 .. 2 * w + 1 |-> Wall ] ]
            /\ pc = "new"
            /\ raised = "none"

\* sessions of any dimension from -1 up, asked for up to MaxExits exits, and
\* 1 x 1 sessions asked for more exits than their boundary offers
Configs ==
    ((-1 .. MaxW) \X (-1 .. MaxH) \X (0 .. MaxExits))
    \cup { <<1, 1, n>> : n \in 0 .. OverExits }

\* a fresh session on which generate_maze is called once
Init == \E c \in Configs : NewSession(c[1], c[2], c[3], 1)

Next ==
    \/ GenerateBegin
    \/ DfsStep
    \/ DfsReturn
    \/ GenerateFinish
    \/ FindAllPaths

Spec == Init /\ [][Next]_vars

\* sessions of up to RegenRooms rooms
RegenConfigs ==
    { c \in (1 .. RegenRooms) \X (1 .. RegenRooms) \X (0 .. RegenExits) :
        c[1] * c[2] <= RegenRooms }

\* a session on which generate_maze is called up to MaxGenCalls times
InitRegen == \E c \in RegenConfigs : NewSession(c[1], c[2], c[3], MaxGenCalls)

SpecRegen == InitRegen /\ [][Next]_vars

\* a maze of one column and DeepH rows, whose carving is one corridor; the
\* caller calls generate_maze again after a failure
InitDeep == NewSession(1, DeepH, 0, 2)

SpecDeep == InitDeep /\ [][Next]_vars

----------------------------------------------------------------------------
(* Vocabulary of the properties *)

\* the outer ring of the grid
PerimeterCells ==
    { c \in Cells : c[1] = 0 \/ c[1] = Rows - 1 \/ c[2] = 0 \/ c[2] = Cols - 1 }

\* odd row and odd column
RoomCells == { c \in Cells : c[1] % 2 = 1 /\ c[2] % 2 = 1 }

\* the cells between two adjacent rooms: inside the ring, one odd coordinate
PassageCells == { c \in Cells \ PerimeterCells : (c[1] + c[2]) % 2 = 1 }

\* one step apart in row or in column
Adjacent(a, b) == Abs(a[1] - b[1]) + Abs(a[2] - b[2]) = 1

\* the perimeter cells whose one-step-inward room is Open
EligibleCells ==
    { c \in PerimeterCells : \E r \in RoomCells : Adjacent(c, r) /\ At(maze, r) = Open }

\* exhaustive breadth-first search through the Open cells of m: the number of
\* steps from a cell of `layer` (at distance d from the source) to goal, -1
\* when there is no way
RECURSIVE BfsLayer(_, _, _, _, _)
BfsLayer(m, layer, seen, goal, d) ==
    IF goal \in layer THEN d
    ELSE LET next == { c \in Cells : /\ At(m, c) = Open
                                      /\ c \notin seen
                                      /\ \E f \in layer : Adjacent(c, f) }
         IN IF next = {} THEN -1
            ELSE BfsLayer(m, next, seen \cup next, goal, d + 1)

BfsDistance(m, from, goal) == BfsLayer(m, {from}, {from}, goal, 0)

NoRepeats(s) == \A i, j \in DOMAIN s : i # j => s[i] # s[j]

----------------------------------------------------------------------------
(* Claims *)

\* C1: when the carving of a fresh grid completes, every room is Open, every
\* room is connected to room (1,1) through Open cells, and the Open passages
\* number W*H - 1: rooms and passages form a spanning tree.
C1_CarvedTree ==
    (pc = "exits" /\ genCalls = 1) =>
        /\ \A r \in RoomCells : At(maze, r) = Open
        /\ \A r \in RoomCells : BfsDistance(maze, <<1, 1>>, r) >= 0
        /\ Cardinality({ c \in PassageCells : At(maze, c) = Open }) = width * height - 1

\* a carved maze on which a cycle could have been closed
C1_Witness == pc = "exits" /\ genCalls = 1 /\ width >= 2 /\ height >= 2

\* C2: after generate_maze the ExitList has min(num_exits, eligible
\* candidates) entries, pairwise distinct, each on the perimeter with its
\* inward room Open.
C2_ExitList ==
    pc = "generated" =>
        /\ Len(exits) = Min(num_exits, Cardinality(EligibleCells))
        /\ NoRepeats(exits)
        /\ \A i \in DOMAIN exits : exits[i] \in EligibleCells

\* more exits requested than the boundary offers: the list is capped
C2_Witness ==
    /\ pc = "generated"
    /\ num_exits > Cardinality(EligibleCells)
    /\ Len(exits) = Cardinality(EligibleCells)
    /\ Len(exits) >= 2

\* C3: after generate_maze, find_all_paths produces for every exit a path
\* whose number of steps is the breadth-first distance from Start to the exit.
C3_ShortestPaths ==
    (pc = "generated" /\ findCalls # "none") =>
        /\ Len(paths) = Len(exits)
        /\ \A i \in DOMAIN exits :
              /\ BfsDistance(maze, Start, exits[i]) >= 0
              /\ Len(paths[i]) - 1 = BfsDistance(maze, Start, exits[i])

\* an exit six steps from Start, around a turn of the maze, has been searched
C3_Witness ==
    /\ pc = "generated"
    /\ findCalls # "none"
    /\ width >= 2 /\ height >= 2
    /\ \E i \in DOMAIN paths : Len(paths[i]) >= 7

\* C4: every path find_all_paths placed in PathList is non-empty, begins at
\* Start, ends at its exit, repeats no coordinate, moves one step at a time
\* and stays on Open cells.
C4_PathShape ==
    findCalls # "none" =>
        /\ Len(paths) <= Len(exits)
        /\ \A i \in DOMAIN paths :
              LET p == paths[i]
              IN /\ p # << >>
                 /\ p[1] = Start
                 /\ p[Len(p)] = exits[i]
                 /\ NoRepeats(p)
                 /\ \A j \in 1 .. Len(p) - 1 : Adjacent(p[j], p[j + 1])
                 /\ \A j \in DOMAIN p : p[j] \in Cells /\ At(maze, p[j]) = Open

\* several paths have been placed, one of them the path to an exit that is
\* the Start cell itself
C4_Witness ==
    /\ findCalls # "none"
    /\ Len(paths) >= 3
    /\ \E i \in DOMAIN paths : Len(paths[i]) >= 3
    /\ \E i \in DOMAIN paths : paths[i] = << Start >>

\* C5: find_all_paths leaves one PathList entry per exit, in ExitList order:
\* the path for an exit that is reachable, the unreachable marker for one
\* that is not.
C5_OneEntryPerExit ==
    findCalls # "none" =>
        /\ Len(paths) = Len(exits)
        /\ \A i \in DOMAIN exits :
              IF BfsDistance(maze, Start, exits[i]) < 0
              THEN paths[i] = None
              ELSE paths[i] # None /\ paths[i][Len(paths[i])] = exits[i]

\* C5, its case: some exit of the ExitList cannot be reached from Start
\* through Open cells.  No session reaches such a state: the negation of
\* this predicate is an invariant of Spec, SpecRegen and SpecDeep.
C5_SomeExitUnreachable ==
    \E i \in DOMAIN exits : BfsDistance(maze, Start, exits[i]) < 0

\* C6: a session with width < 1 or height < 1 is rejected before the grid is
\* allocated and before any carving step: it never has a grid, a visited
\* room or a written cell.
C6_InvalidDimensionsRejected ==
    (width < 1 \/ height < 1) =>
        /\ pc = "unconstructed"
        /\ maze = << >>
        /\ visited = {}

\* C7: for W, H >= 1 the carving of a fresh grid propagates no error, its
\* depth never exceeds W*H, and when it ends it has entered every room, each
\* exactly once, in W*H calls.
C7_CarvingCompletes ==
    (width >= 1 /\ height >= 1 /\ genCalls = 1) =>
        /\ pc # "raised"
        /\ Len(stack) <= width * height
        /\ dfsCalls <= width * height
        /\ pc = "exits" =>
              /\ visited = { <<c[2], c[1]>> : c \in RoomCells }
              /\ dfsCalls = width * height

\* C9: a find_all_paths call changes neither a grid cell nor the ExitList,
\* and when an earlier call was made on the same grid and ExitList it leaves
\* PathList as that call left it.
C9_FindAllPathsIdempotent ==
    [][ findCalls' # "none" =>
            /\ maze' = maze
            /\ exits' = exits
            /\ findCalls # "none" => paths' = paths ]_vars

\* find_all_paths has been called twice in a row after a generate_maze that
\* chose an exit
C9_Witness == findCalls = "repeated" /\ genCalls >= 1 /\ Len(paths) >= 1

\* C10, as claimed: every perimeter cell is Wall unless it is Start or a
\* member of the current ExitList.
C10_PerimeterWall ==
    \A c \in PerimeterCells : At(maze, c) = Open => (c = Start \/ c \in Range(exits))

\* C10, amended: every perimeter cell is Wall unless it is Start or a member
\* of the ExitList some generate_maze call on the session chose, the current
\* one or an earlier one; the perimeter cells with two even coordinates, the
\* corners among them, are always Wall.
C10_PerimeterWallAmended ==
    \A c \in PerimeterCells :
        /\ At(maze, c) = Open => (c = Start \/ c \in exitsEver)
        /\ (c[1] % 2 = 0 /\ c[2] % 2 = 0) => At(maze, c) = Wall

\* after a second generate_maze an exit of the first is Open and is neither
\* Start nor in the current ExitList
C10_Witness ==
    /\ pc = "generated"
    /\ genCalls >= 2
    /\ \E c \in PerimeterCells : At(maze, c) = Open /\ c # Start /\ c \notin Range(exits)

====
